---- MODULE Spec2Model ----
(***************************************************************************)
(* Model of the cross-chain USDC transfer orchestrator of morph-pay:       *)
(*   src/src/lib/cross-chain-transfer.ts (CrossChainTransferService, the   *)
(*   version with webhooks, lines 356-886), src/src/lib/cctp.ts            *)
(*   (CCTPService), src/src/lib/hooks.ts (CCTPHooksService) and            *)
(*   src/unnamed/part_002 (WebhookService).                                *)
(*                                                                         *)
(* One transfer is followed through initiateTransfer and the later calls   *)
(* of completeTransfer.  Every await of the handlers is a step; the        *)
(* outcomes of the external collaborators (signer, RPC reads, contract     *)
(* calls, attestation API, message API) are drawn nondeterministically.    *)
(* Time is in milliseconds; amounts are in micro-USDC (6 decimals).        *)
(*                                                                         *)
(* The attestation poller, the status query, the hook-metadata encoder,    *)
(* the merchant hook manager (MerchantHookManager.processPaymentHooks) and *)
(* several initiateTransfer calls interleaved on one event loop each have  *)
(* a specification of their own over the same variables.                   *)
(***************************************************************************)
EXTENDS Integers, Sequences, FiniteSets, TLC

----------------------------------------------------------------------------
(* Bounds of the exploration *)

\* largest amount / balance / allowance drawn, in whole USDC
MaxAmount == 1
\* number of completeTransfer calls followed for the transfer
MaxCompleteCalls == 2
\* standalone poller: maxWaitTime is drawn from 0, WaitStep, ..., MaxWaitSteps * WaitStep
MaxWaitSteps == 14

----------------------------------------------------------------------------
(* Program constants *)

checkInterval == 10000
FastPollTimeout == 900000
StandardPollTimeout == 2400000
FastFinalityThreshold == 1000
StandardFinalityThreshold == 0
maxFee == 500
HookGasDefault == 500000
FastGasLimit == 300000
StandardGasLimit == 250000
EncodeGasDefault == 300000
ProgressCap == 95
Micro == 1000000

\* granularity of the waits drawn for the standalone poller (quarter of the interval)
WaitStep == checkInterval \div 4
\* latency of one attestation-client call when it is not instantaneous
SlowCall == checkInterval \div 5

Undefined == "undefined"
NoErr == [kind |-> "none", cause |-> "none"]
Err(k) == [kind |-> k, cause |-> "none"]
Wrapped(k, c) == [kind |-> k, cause |-> c]

Min(a, b) == IF a < b THEN a ELSE b

----------------------------------------------------------------------------
(* State *)

VARIABLES
  enableFastTransfer,  \* config.features.enableFastTransfer
  webhookConfigs,      \* WebhookService.webhookConfigs
  configs,             \* MerchantHookManager.configs
  transfers,           \* the initiateTransfer calls running concurrently on one event loop
  clientLatency,       \* duration of one attestation-client call
  pc,                  \* position of the running handler
  call,                \* arguments and locals of the running / last call, and what a pure call returned
  ledger,              \* signer's USDC balance and allowance on the source chain
  events,              \* progress events delivered during the current call (latest poll report only)
  stepTrace,           \* steps delivered over all calls (repeated poll reports collapsed)
  burnCalls,           \* burn methods invoked on the TokenMessenger contract
  mintCalls,           \* receive methods invoked on the MessageTransmitter contract
  sent,                \* sendWebhook calls
  posts,               \* HTTP POSTs issued by deliverWebhook and executeNotificationHook
  reads,               \* other network calls made during the current call
  burnResult,          \* value returned by initiateBurn / initiateBurnWithHooks
  initiateResult,      \* CrossChainTransferResult returned by initiateTransfer
  completeResult,      \* CrossChainTransferResult last returned by completeTransfer
  argResult,           \* the result object passed to the running completeTransfer
  outcomes,            \* how each finished call ended
  error,               \* error caught by the running handler
  poll                 \* locals of waitForAttestationWithProgress

vars == <<enableFastTransfer, webhookConfigs, configs, transfers, clientLatency, pc, call, ledger,
          events, stepTrace, burnCalls, mintCalls, sent, posts, reads,
          burnResult, initiateResult, completeResult, argResult, outcomes,
          error, poll>>

\* what the handlers of the single transfer followed only read or never touch
configVars == <<enableFastTransfer, webhookConfigs, configs, transfers, clientLatency>>

----------------------------------------------------------------------------
(* Chain registry: cctp.ts SUPPORTED_CHAINS *)

ChainKeys == {"ethereum", "arbitrum", "base", "avalanche", "sonic"}

domainId(k) ==
  CASE k = "ethereum"  -> 0
    [] k = "arbitrum"  -> 3
    [] k = "base"      -> 6
    [] k = "avalanche" -> 1
    [] k = "sonic"     -> 4

SUPPORTED_CHAINS ==
  [k \in ChainKeys |-> [domainId |-> domainId(k),
                        supportsFastTransfer |-> enableFastTransfer]]

IsSupported(k) == k \in DOMAIN SUPPORTED_CHAINS

----------------------------------------------------------------------------
(* Inputs drawn by the environment *)

\* chain keys passed by callers: a registry key and one key that is not registered
SourceInputs == {"ethereum", "polygon"}
DestInputs == {"base", "polygon"}

\* amount strings: a decimal string with at most 6 decimals (its value in
\* micro-USDC), or a string that is not a number ("abc")
Amounts ==
  {[kind |-> "nan", micro |-> 0]} \cup
  {[kind |-> "num", micro |-> m * Micro] : m \in {-MaxAmount, 0, MaxAmount}}

\* the wallet holds (or has approved) nothing, or enough for every amount
LedgerValues == {0, MaxAmount * Micro}

NoHookMetadata ==
  [present |-> FALSE, hookType |-> "", executionTiming |-> "", gasSet |-> FALSE,
   gasLimit |-> 0, callbackData |-> Undefined]

\* HookMetadata values passed to initiateTransfer; gasSet tells whether the
\* optional gasLimit is there
HookMetadataInputs ==
  {NoHookMetadata,
   [present |-> TRUE, hookType |-> "REBALANCE", executionTiming |-> "POST_MINT",
    gasSet |-> FALSE, gasLimit |-> 0, callbackData |-> Undefined]}

\* HookMetadata values passed to encodeHookMetadata: every hook type and one
\* string that is none, both timings, an absent gasLimit and gas limits around
\* the byte boundaries, with and without callbackData
EncodeGasInputs == {-1, 0, 1, 255, 256, 65535, 65536, 300000, 500000, 16777216, 2147483647}

EncodeInputs ==
  {[present |-> TRUE, hookType |-> h, executionTiming |-> e, gasSet |-> FALSE,
    gasLimit |-> 0, callbackData |-> d] :
     h \in {"REBALANCE", "NOTIFICATION", "SWAP", "CUSTOM", "OTHER"},
     e \in {"PRE_MINT", "POST_MINT"}, d \in {Undefined, "0xdata"}} \cup
  {[present |-> TRUE, hookType |-> h, executionTiming |-> e, gasSet |-> TRUE,
    gasLimit |-> g, callbackData |-> d] :
     h \in {"REBALANCE", "NOTIFICATION", "SWAP", "CUSTOM", "OTHER"},
     e \in {"PRE_MINT", "POST_MINT"}, g \in EncodeGasInputs,
     d \in {Undefined, "0xdata"}}

WebhookEvents ==
  {"transfer.initiated", "transfer.burning", "transfer.attestation_pending",
   "transfer.ready_to_mint", "transfer.minting", "transfer.completed",
   "transfer.failed"}

\* contents of the webhook registry at the start
WebhookRegistries ==
  {<<>>,
   <<[url |-> "https://a", enabled |-> TRUE, events |-> WebhookEvents],
     [url |-> "https://b", enabled |-> TRUE,
      events |-> {"transfer.completed", "transfer.failed"}],
     [url |-> "https://c", enabled |-> FALSE, events |-> WebhookEvents]>>}

\* merchants known to the callers; only the first is ever registered
MerchantIds == {"merchant-1", "merchant-2"}

NoConfig ==
  [present |-> FALSE, webhookUrl |-> Undefined, rebalanceTarget |-> Undefined,
   autoSwapToken |-> Undefined]

\* MerchantHookConfig values: each optional field is absent, empty or set; the
\* rebalance target is a registry key or not, the swap token an address or not
MerchantConfigInputs ==
  {[present |-> TRUE, webhookUrl |-> w, rebalanceTarget |-> r, autoSwapToken |-> t] :
     w \in {Undefined, "", "https://merchant"},
     r \in {Undefined, "arbitrum", "polygon"},
     t \in {Undefined, "0xtoken", "not-an-address"}}

\* the empty Map of MerchantHookManager
NoConfigs == [m \in MerchantIds |-> NoConfig]

\* what the merchant's endpoint does with one POST
FetchOutcomes == {"ok", "httpError", "networkError"}

\* the concurrent initiateTransfer calls, all made with the same signer
TransferIds == {1, 2}

\* a call that has not been made yet
NotStarted ==
  [pc |-> "new", amount |-> [kind |-> "nan", micro |-> 0], useFastTransfer |-> FALSE,
   steps |-> <<>>, ended |-> FALSE, ok |-> FALSE, err |-> NoErr]

NoTransfers == [t \in TransferIds |-> NotStarted]

\* what the attestation API answers to one GET
ApiResponses == {"complete", "pending", "direct", "empty", "networkError"}

Waits == {k * WaitStep : k \in 0..MaxWaitSteps}

----------------------------------------------------------------------------
(* Pure helpers *)

\* ethers.parseUnits(amount, 6): throws on a string that is not a decimal number
parseUnits(amount) ==
  IF amount.kind = "num" THEN [ok |-> TRUE, value |-> amount.micro]
                         ELSE [ok |-> FALSE, value |-> 0]

\* parseFloat of a decimal string, in micro units
parseFloat(amount) == amount.micro

hookTypeToNumber(hookType) ==
  CASE hookType = "REBALANCE"    -> 1
    [] hookType = "NOTIFICATION" -> 2
    [] hookType = "SWAP"         -> 3
    [] hookType = "CUSTOM"       -> 4
    [] OTHER                     -> 0

\* metadata.gasLimit || fallback: an absent gasLimit and the number 0 are falsy
GasLimitOr(metadata, fallback) ==
  IF metadata.gasSet /\ metadata.gasLimit # 0 THEN metadata.gasLimit ELSE fallback

\* solidityPacked of one 'uint32': 4 bytes, big-endian; it throws on a
\* negative value and on one that does not fit 4 bytes
PackUint32(value) ==
  IF value < 0 \/ value \div 65536 >= 65536
    THEN [threw |-> TRUE, bytes |-> <<>>]
    ELSE [threw |-> FALSE,
          bytes |-> << (value \div 16777216) % 256, (value \div 65536) % 256,
                       (value \div 256) % 256, value % 256 >>]

\* solidityPacked(['uint8','uint8','uint32'], ...): 6 bytes, unless packing throws
encodeHookMetadata(metadata) ==
  LET packed == PackUint32(GasLimitOr(metadata, EncodeGasDefault))
  IN  [threw |-> packed.threw,
       bytes |-> IF packed.threw THEN <<>>
                 ELSE << hookTypeToNumber(metadata.hookType),
                         IF metadata.executionTiming = "PRE_MINT" THEN 0 ELSE 1 >>
                      \o packed.bytes]

NoHooks == [set |-> FALSE, bytes |-> <<>>]

\* TransferOptions built by initiateTransfer for the plain burn
PlainOptions(useFastTransfer) ==
  [hooks |-> NoHooks,
   useFastTransfer |-> useFastTransfer,
   gasLimit |-> IF useFastTransfer THEN FastGasLimit ELSE StandardGasLimit]

\* TransferOptions built by initiateBurnWithHooks
HookOptions(hookMetadata) ==
  [hooks |-> [set |-> TRUE, bytes |-> encodeHookMetadata(hookMetadata).bytes],
   useFastTransfer |-> FALSE,
   gasLimit |-> GasLimitOr(hookMetadata, HookGasDefault)]

\* mutant: a requested fast transfer wins over the hook payload
UsesHooks_FastWins(c) == c.enableHooks /\ c.hookMetadata.present /\ ~c.useFastTransfer

\* the branch of initiateTransfer that submits the burn
UsesHooks(c) == c.enableHooks /\ c.hookMetadata.present

\* the variant initiateBurn selects for these options
BurnBranch(sourceChain, destinationChain, options) ==
  IF options.hooks.set THEN "hook"
  ELSE IF /\ options.useFastTransfer
          /\ SUPPORTED_CHAINS[sourceChain].supportsFastTransfer
          /\ SUPPORTED_CHAINS[destinationChain].supportsFastTransfer
       THEN "fast"
       ELSE "standard"

\* the contract method call initiateBurn makes in each branch
BurnCall(branch, sourceChain, destinationChain, burnAmount, options) ==
  CASE branch = "hook" ->
         [branch |-> "hook", method |-> "depositForBurnWithHook",
          amount |-> burnAmount, destinationDomain |-> domainId(destinationChain),
          hookData |-> options.hooks.bytes, maxFee |-> -1,
          minFinalityThreshold |-> -1,
          gasLimit |-> IF options.gasLimit # 0 THEN options.gasLimit
                                               ELSE HookGasDefault]
    [] branch = "fast" ->
         [branch |-> "fast", method |-> "depositForBurn",
          amount |-> burnAmount, destinationDomain |-> domainId(destinationChain),
          hookData |-> <<>>, maxFee |-> maxFee,
          minFinalityThreshold |-> FastFinalityThreshold,
          gasLimit |-> IF options.gasLimit # 0 THEN options.gasLimit
                                               ELSE FastGasLimit]
    [] OTHER ->
         [branch |-> "standard", method |-> "depositForBurn",
          amount |-> burnAmount, destinationDomain |-> domainId(destinationChain),
          hookData |-> <<>>, maxFee |-> maxFee,
          minFinalityThreshold |-> IF options.useFastTransfer
                                     THEN FastFinalityThreshold
                                     ELSE StandardFinalityThreshold,
          gasLimit |-> 0]

\* mutant: a failed request is taken for a finished attestation
getAttestation_ErrorIsReady(response) ==
  CASE response = "complete"     -> [threw |-> FALSE, value |-> "0xatt"]
    [] response = "direct"       -> [threw |-> FALSE, value |-> "0xatt"]
    [] response = "networkError" -> [threw |-> FALSE, value |-> "0xatt"]
    [] OTHER                     -> [threw |-> FALSE, value |-> ""]

\* CCTPService.getAttestation: the attestation, null, or an exception
getAttestation(response) ==
  CASE response = "complete"     -> [threw |-> FALSE, value |-> "0xatt"]
    [] response = "direct"       -> [threw |-> FALSE, value |-> "0xatt"]
    [] response = "networkError" -> [threw |-> TRUE, value |-> ""]
    [] OTHER                     -> [threw |-> FALSE, value |-> ""]

\* mutant: every value counts as present
Truthy_Anything(s) == TRUE

\* mutant: only an absent string is falsy
Truthy_OnlyUndefined(s) == s # Undefined

\* JavaScript truthiness of an optional string
Truthy(s) == s # Undefined /\ s # ""

----------------------------------------------------------------------------
(* Progress events *)

\* progress is the fraction num / den; err is the kind of the error whose
\* message a FAILED event carries
Progress(step, percent) == [step |-> step, num |-> percent, den |-> 1, err |-> "none"]
Failed(percent, err) == [step |-> "FAILED", num |-> percent, den |-> 1, err |-> err.kind]

Last(s) == s[Len(s)]

\* onProgress(ev) of the transfer's callback
Emit(ev) ==
  /\ events' = Append(events, ev)
  /\ stepTrace' = IF /\ stepTrace # <<>>
                     /\ ev.step = "WAITING_ATTESTATION"
                     /\ Last(stepTrace) = "WAITING_ATTESTATION"
                  THEN stepTrace
                  ELSE Append(stepTrace, ev.step)

NoEmit == UNCHANGED <<events, stepTrace>>

----------------------------------------------------------------------------
(* WebhookService *)

\* what a receiving endpoint does with one POST: a 2xx or 4xx answer, a 5xx
\* answer, a connection failure, or no answer within the 10 s timeout
DeliveryResponses == {"ok", "clientError", "serverError", "networkError", "timeout"}

\* the endpoints of the registry: the first answers each event in its own
\* way, the others are unreachable
Endpoint(url, event) ==
  IF url # "https://a" THEN "networkError"
  ELSE CASE event = "transfer.initiated"           -> "serverError"
         [] event = "transfer.burning"             -> "networkError"
         [] event = "transfer.attestation_pending" -> "timeout"
         [] event = "transfer.ready_to_mint"       -> "clientError"
         [] event = "transfer.minting"             -> "serverError"
         [] event = "transfer.failed"              -> "timeout"
         [] OTHER                                  -> "ok"

\* axios.post rejects unless validateStatus accepts the answer (status < 500)
DeliveryFails(response) == response \in {"serverError", "networkError", "timeout"}

\* deliverWebhook: one POST; a failed delivery is caught and only logged
deliverWebhook(config, event, id) ==
  [post |-> [url |-> config.url, event |-> event, id |-> id,
             response |-> Endpoint(config.url, event)],
   rejected |-> FALSE]

\* the webhooks sendWebhook delivers to: enabled and subscribed to the event
RelevantWebhooks(event) ==
  SelectSeq(webhookConfigs, LAMBDA c : c.enabled /\ event \in c.events)

\* mutant: the deliveries are awaited with Promise.all and a failed POST is
\* re-thrown, so the first failed delivery rejects sendWebhook
sendWebhookRejects_FirstFailure(event) ==
  \E i \in 1..Len(RelevantWebhooks(event)) :
    DeliveryFails(Endpoint(RelevantWebhooks(event)[i].url, event))

\* whether the promise of sendWebhook rejects: Promise.allSettled fulfils once
\* every delivery has settled, and no delivery rejects
sendWebhookRejects(event) ==
  \E i \in 1..Len(RelevantWebhooks(event)) :
    deliverWebhook(RelevantWebhooks(event)[i], event, Undefined).rejected

\* sendWebhook: deliver to every enabled webhook subscribed to the event and
\* wait for all deliveries to settle
sendWebhook(event, id) ==
  LET relevantWebhooks == RelevantWebhooks(event)
  IN  /\ sent' = Append(sent, [event |-> event, id |-> id])
      /\ posts' = posts \o [i \in 1..Len(relevantWebhooks) |->
                              deliverWebhook(relevantWebhooks[i], event, id).post]

----------------------------------------------------------------------------
(* Initial state *)

NoReads == [balance |-> 0, allowance |-> 0, attestation |-> 0, messageBytes |-> 0]
NoCall == [op |-> "none"]
NoBurnResult ==
  [txHash |-> Undefined, messageHash |-> Undefined, sourceDomain |-> -1, hookId |-> <<>>]
NoResult ==
  [sourceTransactionHash |-> Undefined, messageHash |-> Undefined,
   destinationTransactionHash |-> Undefined, status |-> "NONE",
   attestation |-> Undefined, hookId |-> <<>>, estimatedCompletionTime |-> 0]
PollIdle ==
  [caller |-> "none", maxWaitTime |-> 0, elapsed |-> 0, attemptCount |-> 0,
   sleeps |-> 0, reports |-> <<>>, answers |-> <<>>, attestation |-> Undefined]

Init ==
  /\ enableFastTransfer \in BOOLEAN
  /\ webhookConfigs \in WebhookRegistries
  /\ configs = NoConfigs
  /\ transfers = NoTransfers
  /\ clientLatency = 0
  /\ ledger \in [balance : LedgerValues, allowance : LedgerValues]
  /\ pc = "idle"
  /\ call = NoCall
  /\ events = <<>>
  /\ stepTrace = <<>>
  /\ burnCalls = <<>>
  /\ mintCalls = <<>>
  /\ sent = <<>>
  /\ posts = <<>>
  /\ reads = NoReads
  /\ burnResult = NoBurnResult
  /\ initiateResult = NoResult
  /\ completeResult = NoResult
  /\ argResult = NoResult
  /\ outcomes = <<>>
  /\ error = NoErr
  /\ poll = PollIdle

----------------------------------------------------------------------------
(* Bookkeeping shared by the handlers *)

CallsOf(op) == {i \in 1..Len(outcomes) : outcomes[i].op = op}

\* the call ends: the caller observes the returned value or the rejection;
\* res is the result object the call was given (completeTransfer)
Finish(op, ok, err, res) ==
  /\ outcomes' = Append(outcomes, [op |-> op, ok |-> ok, err |-> err, res |-> res])
  /\ pc' = "idle"
  /\ error' = NoErr
  /\ poll' = PollIdle

transferId == "0xtransferId"

\* mutant: a failed burn submission is tried again instead of being reported
CatchInitiate_RetriesBurn(err) ==
  IF pc = "b_submit"
    THEN /\ NoEmit
         /\ UNCHANGED error
         /\ pc' = "b_submit"
    ELSE /\ Emit(Failed(0, err))
         /\ error' = err
         /\ pc' = "i_failed"

\* catch block of initiateTransfer (lines 572-579): FAILED at 0%, then the
\* transfer.failed webhook is awaited before the error is re-thrown
CatchInitiate(err) ==
  /\ Emit(Failed(0, err))
  /\ error' = err
  /\ pc' = "i_failed"

----------------------------------------------------------------------------
(* CrossChainTransferService.initiateTransfer *)

\* entry (lines 401-411): resolve the signer's address, derive the transfer id
initiateTransfer(sourceChain, destinationChain, amount, useFastTransfer, enableHooks, hookMetadata, signerOk) ==
  /\ pc = "idle"
  /\ CallsOf("initiateTransfer") = {}
  /\ call' = [op |-> "initiateTransfer", sourceChain |-> sourceChain,
              destinationChain |-> destinationChain, amount |-> amount,
              useFastTransfer |-> useFastTransfer, enableHooks |-> enableHooks,
              hookMetadata |-> hookMetadata, options |-> PlainOptions(FALSE)]
  /\ events' = <<>>
  /\ reads' = NoReads
  /\ IF signerOk
       THEN /\ pc' = "i_initiated"
            /\ UNCHANGED <<outcomes, error, poll>>
       ELSE Finish("initiateTransfer", FALSE, Err("SignerError"), NoResult)
  /\ UNCHANGED <<configVars, ledger, stepTrace, burnCalls, mintCalls, sent, posts,
                 burnResult, initiateResult, completeResult, argResult>>

\* lines 415-441: transfer.initiated webhook, then the BURNING event, whose
\* message reads SUPPORTED_CHAINS[sourceChain].name
initiateTransfer_SendInitiated ==
  /\ pc = "i_initiated"
  /\ sendWebhook("transfer.initiated", transferId)
  /\ IF sendWebhookRejects("transfer.initiated")
       THEN CatchInitiate(Err("WebhookError"))
     ELSE IF IsSupported(call.sourceChain)
       THEN /\ Emit(Progress("BURNING", 10))
            /\ pc' = "i_burning"
            /\ UNCHANGED error
       ELSE CatchInitiate(Err("TypeError"))
  /\ UNCHANGED <<configVars, call, ledger, burnCalls, mintCalls, reads, burnResult,
                 initiateResult, completeResult, argResult, outcomes, poll>>

\* lines 443-486 and cctp.ts 205-216: transfer.burning webhook, choice of the
\* burn path, then initiateBurn up to its first await
initiateTransfer_SendBurning ==
  /\ pc = "i_burning"
  /\ sendWebhook("transfer.burning", transferId)
  /\ LET options == IF UsesHooks(call) THEN HookOptions(call.hookMetadata)
                                       ELSE PlainOptions(call.useFastTransfer)
         burnAmount == parseUnits(call.amount)
     IN  /\ call' = [call EXCEPT !.options = options]
         /\ IF sendWebhookRejects("transfer.burning")
              THEN CatchInitiate(Err("WebhookError"))
            ELSE IF UsesHooks(call) /\ encodeHookMetadata(call.hookMetadata).threw
              THEN CatchInitiate(Err("PackError"))
            ELSE IF ~IsSupported(call.sourceChain) \/ ~IsSupported(call.destinationChain)
              THEN CatchInitiate(Err("Unsupported chain"))
            ELSE IF ~burnAmount.ok
              THEN CatchInitiate(Err("ParseError"))
            ELSE IF burnAmount.value <= 0
              THEN CatchInitiate(Err("Invalid amount"))
            ELSE /\ pc' = "b_balance"
                 /\ NoEmit
                 /\ UNCHANGED error
  /\ UNCHANGED <<configVars, ledger, burnCalls, mintCalls, reads, burnResult,
                 initiateResult, completeResult, argResult, outcomes, poll>>

\* mutant: a failed balance read is reported as an ample balance
checkUSDCBalance_FailOpen(readOk) == IF readOk THEN ledger.balance ELSE MaxAmount * Micro

\* checkUSDCBalance / checkUSDCAllowance: a failed read is reported as '0'
checkUSDCBalance(readOk) == IF readOk THEN ledger.balance ELSE 0
checkUSDCAllowance(readOk) == IF readOk THEN ledger.allowance ELSE 0

\* cctp.ts 218-223: balance check
initiateBurn_CheckBalance(readOk) ==
  /\ pc = "b_balance"
  /\ reads' = [reads EXCEPT !.balance = @ + 1]
  /\ IF checkUSDCBalance(readOk) < parseFloat(call.amount)
       THEN CatchInitiate(Err("Insufficient USDC balance"))
       ELSE /\ pc' = "b_allowance"
            /\ NoEmit
            /\ UNCHANGED error
  /\ UNCHANGED <<configVars, call, ledger, burnCalls, mintCalls, sent, posts,
                 burnResult, initiateResult, completeResult, argResult, outcomes, poll>>

\* cctp.ts 225-229: allowance check
initiateBurn_CheckAllowance(readOk) ==
  /\ pc = "b_allowance"
  /\ reads' = [reads EXCEPT !.allowance = @ + 1]
  /\ IF checkUSDCAllowance(readOk) < parseFloat(call.amount)
       THEN CatchInitiate(Err("Insufficient USDC allowance"))
       ELSE /\ pc' = "b_submit"
            /\ NoEmit
            /\ UNCHANGED error
  /\ UNCHANGED <<configVars, call, ledger, burnCalls, mintCalls, sent, posts,
                 burnResult, initiateResult, completeResult, argResult, outcomes, poll>>

\* what can happen while the burn is submitted: in the standard branch the
\* provider re-reads or the gas estimation can fail before the submission
SubmitOutcomes(branch) ==
  IF branch = "standard" THEN {"precheckFailed", "estimateFailed", "submitFailed", "ok"}
                         ELSE {"submitFailed", "ok"}

\* cctp.ts 237-347: the burn is submitted in one of the three variants
initiateBurn_Submit(outcome) ==
  /\ pc = "b_submit"
  /\ LET branch == BurnBranch(call.sourceChain, call.destinationChain, call.options)
         submitted == outcome \in {"submitFailed", "ok"}
     IN  /\ outcome \in SubmitOutcomes(branch)
         /\ burnCalls' =
              IF submitted
                THEN Append(burnCalls,
                            BurnCall(branch, call.sourceChain, call.destinationChain,
                                     parseUnits(call.amount).value, call.options))
                ELSE burnCalls
         /\ reads' = IF branch = "standard"
                       THEN [reads EXCEPT !.allowance = @ + 1, !.balance = @ + 1]
                       ELSE reads
         /\ IF outcome = "ok"
              THEN /\ pc' = "b_receipt"
                   /\ NoEmit
                   /\ UNCHANGED error
              ELSE CatchInitiate(Wrapped("Transaction failed",
                                         IF submitted THEN "submission rejected"
                                                      ELSE "Gas estimation failed"))
  /\ UNCHANGED <<configVars, call, ledger, mintCalls, sent, posts, burnResult,
                 initiateResult, completeResult, argResult, outcomes, poll>>

\* extractMessageHashFromReceipt: the hash of the MessageSent log, or an error
extractMessageHashFromReceipt(messageFound) ==
  IF messageFound THEN [ok |-> TRUE, messageHash |-> "0xmessage"]
                  ELSE [ok |-> FALSE, messageHash |-> Undefined]

\* hooks.ts 41-47: keccak256 of (sourceChain, destinationChain, messageHash)
deriveHookId(sourceChain, destinationChain, messageHash) ==
  <<"hookId", sourceChain, destinationChain, messageHash>>

\* cctp.ts 349-372, hooks.ts 41-52, cross-chain-transfer.ts 488-494: the receipt
\* is awaited, the message hash extracted, WAITING_ATTESTATION emitted at 30%
initiateBurn_Receipt(receiptOk, messageFound) ==
  /\ pc = "b_receipt"
  /\ LET extracted == extractMessageHashFromReceipt(messageFound)
     IN  IF ~receiptOk
           THEN /\ CatchInitiate(Wrapped("Transaction failed", "receipt"))
                /\ UNCHANGED burnResult
         ELSE IF ~extracted.ok
           THEN /\ CatchInitiate(Wrapped("Transaction failed", "MessageSent event not found"))
                /\ UNCHANGED burnResult
         ELSE /\ burnResult' =
                   [txHash |-> "0xburn", messageHash |-> extracted.messageHash,
                    sourceDomain |-> domainId(call.sourceChain),
                    hookId |-> IF UsesHooks(call)
                                 THEN deriveHookId(call.sourceChain, call.destinationChain,
                                                   extracted.messageHash)
                                 ELSE <<>>]
              /\ Emit(Progress("WAITING_ATTESTATION", 30))
              /\ pc' = "i_pending"
              /\ UNCHANGED error
  /\ UNCHANGED <<configVars, call, ledger, burnCalls, mintCalls, sent, posts, reads,
                 initiateResult, completeResult, argResult, outcomes, poll>>

\* mutant: every transfer is polled with the standard timeout
PollTimeoutFor_AlwaysStandard(useFastTransfer) == StandardPollTimeout

\* the timeout initiateTransfer passes to the poller (line 520)
PollTimeoutFor(useFastTransfer) ==
  IF useFastTransfer THEN FastPollTimeout ELSE StandardPollTimeout

\* lines 496-532: transfer.attestation_pending webhook, then the poller starts
initiateTransfer_SendPending ==
  /\ pc = "i_pending"
  /\ sendWebhook("transfer.attestation_pending", transferId)
  /\ IF sendWebhookRejects("transfer.attestation_pending")
       THEN /\ CatchInitiate(Err("WebhookError"))
            /\ UNCHANGED poll
       ELSE /\ poll' = [PollIdle EXCEPT !.caller = "initiateTransfer",
                                        !.maxWaitTime = PollTimeoutFor(call.useFastTransfer)]
            /\ pc' = "p_loop"
            /\ NoEmit
            /\ UNCHANGED error
  /\ UNCHANGED <<configVars, call, ledger, burnCalls, mintCalls, reads, burnResult,
                 initiateResult, completeResult, argResult, outcomes>>

----------------------------------------------------------------------------
(* CrossChainTransferService.waitForAttestationWithProgress (lines 789-830) *)

\* progress values are fractions over a common denominator:
\* a report is percent * maxWaitTime
ReportDone(maxWaitTime) == 100 * maxWaitTime

\* mutant: the progress of an unfinished poll is capped at 100 instead of 95
ReportOf_Uncapped(elapsed, maxWaitTime) == Min(elapsed * 100, 100 * maxWaitTime)

\* line 822: Math.min(elapsed / maxWaitTime * 100, 95)
ReportOf(elapsed, maxWaitTime) == Min(elapsed * 100, ProgressCap * maxWaitTime)

\* mutant: the forwarded poll progress is reported under the next step
WaitingEvent_Ready(report, maxWaitTime) ==
  [step |-> "READY_TO_MINT", num |-> 300 * maxWaitTime + 4 * report,
   den |-> 10 * maxWaitTime, err |-> "none"]

\* mutant: the poll progress is scaled by 0.5 instead of 0.4
WaitingEvent_HalfScale(report, maxWaitTime) ==
  [step |-> "WAITING_ATTESTATION", num |-> 300 * maxWaitTime + 5 * report,
   den |-> 10 * maxWaitTime, err |-> "none"]

\* the closure initiateTransfer passes as onProgress (lines 521-529):
\* WAITING_ATTESTATION at 30 + progressPercent * 0.4
WaitingEvent(report, maxWaitTime) ==
  [step |-> "WAITING_ATTESTATION", num |-> 300 * maxWaitTime + 4 * report,
   den |-> 10 * maxWaitTime, err |-> "none"]

\* a poll report reaches onProgress; events keeps the latest report of the
\* running poll in place of the one before it
EmitReport(ev) ==
  IF poll.attemptCount > 0 /\ Last(events).step = ev.step
    THEN /\ events' = [events EXCEPT ![Len(events)] = ev]
         /\ UNCHANGED stepTrace
    ELSE Emit(ev)

\* onProgress(progressPercent) of the poller
PollReport(report) ==
  IF poll.caller = "initiateTransfer"
    THEN EmitReport(WaitingEvent(report, poll.maxWaitTime))
    ELSE NoEmit

\* the standalone poller runs with a recording callback and a recording
\* client: reports are the values onProgress received, answers the API responses
Recorded(report) ==
  IF poll.caller = "initiateTransfer" THEN poll.reports ELSE Append(poll.reports, report)

Answered(response) ==
  IF poll.caller = "initiateTransfer" THEN poll.answers ELSE Append(poll.answers, response)

\* mutant: the deadline is checked one poll interval late
LoopContinues_LateCheck(elapsed, maxWaitTime) == elapsed - checkInterval < maxWaitTime

\* the loop condition (line 800): Date.now() - startTime < maxWaitTime
LoopContinues(elapsed, maxWaitTime) == elapsed < maxWaitTime

\* one pass through the loop body up to the sleep: the client is called; a
\* non-empty attestation ends the poll, anything else is a progress report
waitForAttestation_Attempt(response) ==
  /\ pc = "p_loop"
  /\ LoopContinues(poll.elapsed, poll.maxWaitTime)
  /\ reads' = [reads EXCEPT !.attestation = @ + 1]
  /\ LET attestation == getAttestation(response)
         elapsed == poll.elapsed + clientLatency
     IN  IF ~attestation.threw /\ Truthy(attestation.value)
           THEN /\ PollReport(ReportDone(poll.maxWaitTime))
                /\ poll' = [poll EXCEPT !.attemptCount = @ + 1,
                                        !.elapsed = elapsed,
                                        !.reports = Recorded(ReportDone(poll.maxWaitTime)),
                                        !.answers = Answered(response),
                                        !.attestation = attestation.value]
                /\ pc' = "p_returned"
           ELSE /\ PollReport(ReportOf(elapsed, poll.maxWaitTime))
                /\ poll' = [poll EXCEPT !.attemptCount = @ + 1,
                                        !.elapsed = elapsed,
                                        !.reports = Recorded(ReportOf(elapsed, poll.maxWaitTime)),
                                        !.answers = Answered(response)]
                /\ pc' = "p_sleep"
  /\ UNCHANGED <<configVars, call, ledger, burnCalls, mintCalls, sent, posts,
                 burnResult, initiateResult, completeResult, argResult, outcomes, error>>

\* setTimeout(resolve, checkInterval)
waitForAttestation_Sleep ==
  /\ pc = "p_sleep"
  /\ poll' = [poll EXCEPT !.elapsed = @ + checkInterval, !.sleeps = @ + 1]
  /\ pc' = "p_loop"
  /\ UNCHANGED <<configVars, call, ledger, events, stepTrace, burnCalls, mintCalls,
                 sent, posts, reads, burnResult, initiateResult, completeResult,
                 argResult, outcomes, error>>

\* the loop condition fails: the timeout error is thrown; inside
\* initiateTransfer it lands in the catch block
waitForAttestation_Timeout ==
  /\ pc = "p_loop"
  /\ ~LoopContinues(poll.elapsed, poll.maxWaitTime)
  /\ IF poll.caller = "initiateTransfer"
       THEN CatchInitiate(Err("Attestation timed out"))
       ELSE /\ pc' = "p_thrown"
            /\ error' = Err("Attestation timed out")
            /\ NoEmit
  /\ UNCHANGED <<configVars, call, ledger, burnCalls, mintCalls, sent, posts, reads,
                 burnResult, initiateResult, completeResult, argResult, outcomes, poll>>

----------------------------------------------------------------------------
(* initiateTransfer, after the poller *)

\* lines 534-539: READY_TO_MINT at 75%
initiateTransfer_Ready ==
  /\ pc = "p_returned"
  /\ poll.caller = "initiateTransfer"
  /\ Emit(Progress("READY_TO_MINT", 75))
  /\ pc' = "i_ready"
  /\ UNCHANGED <<configVars, call, ledger, burnCalls, mintCalls, sent, posts, reads,
                 burnResult, initiateResult, completeResult, argResult, outcomes,
                 error, poll>>

\* lines 541-570: transfer.ready_to_mint webhook, then the ATTESTED result
initiateTransfer_Return ==
  /\ pc = "i_ready"
  /\ sendWebhook("transfer.ready_to_mint", transferId)
  /\ IF sendWebhookRejects("transfer.ready_to_mint")
       THEN /\ CatchInitiate(Err("WebhookError"))
            /\ UNCHANGED <<initiateResult, outcomes, poll>>
       ELSE /\ initiateResult' =
                 [sourceTransactionHash |-> burnResult.txHash,
                  messageHash |-> burnResult.messageHash,
                  destinationTransactionHash |-> Undefined,
                  status |-> "ATTESTED",
                  attestation |-> poll.attestation,
                  hookId |-> burnResult.hookId,
                  estimatedCompletionTime |-> IF call.useFastTransfer THEN 30000 ELSE 300000]
            /\ Finish("initiateTransfer", TRUE, NoErr, NoResult)
            /\ NoEmit
  /\ UNCHANGED <<configVars, call, ledger, burnCalls, mintCalls, reads, burnResult,
                 completeResult, argResult>>

\* lines 580-603: transfer.failed webhook inside its own try/catch, then the
\* caught error is re-thrown
initiateTransfer_Rethrow ==
  /\ pc = "i_failed"
  /\ sendWebhook("transfer.failed", transferId)
  /\ Finish("initiateTransfer", FALSE, error, NoResult)
  /\ UNCHANGED <<configVars, call, ledger, events, stepTrace, burnCalls, mintCalls,
                 reads, burnResult, initiateResult, completeResult, argResult>>

----------------------------------------------------------------------------
(* CrossChainTransferService.completeTransfer (lines 607-708) *)

\* result objects a caller can hold for the transfer: the one initiateTransfer
\* returned, the one an earlier completeTransfer returned, and results restored
\* from storage whose attestation is absent or empty
MissingAttestationResults ==
  {[NoResult EXCEPT !.sourceTransactionHash = "0xburn", !.messageHash = "0xmessage",
                    !.status = "PENDING", !.attestation = a] : a \in {Undefined, ""}}

CandidateResults ==
  {r \in {initiateResult, completeResult} : r.status # "NONE"} \cup MissingAttestationResults

\* catch block of completeTransfer (lines 698-707): FAILED at 80%, re-throw
CatchComplete(err) ==
  /\ Emit(Failed(80, err))
  /\ Finish("completeTransfer", FALSE, err, argResult)

\* lines 613-627: precondition, signer address, MINTING at 80% (its message
\* reads SUPPORTED_CHAINS[destinationChain].name)
completeTransfer(res, destinationChain, signerOk) ==
  /\ pc = "idle"
  /\ CallsOf("initiateTransfer") # {}
  /\ Cardinality(CallsOf("completeTransfer")) < MaxCompleteCalls
  /\ res \in CandidateResults
  /\ call' = [op |-> "completeTransfer", destinationChain |-> destinationChain,
              messageBytes |-> Undefined]
  /\ argResult' = res
  /\ reads' = NoReads
  /\ IF ~Truthy(res.attestation)
       THEN /\ events' = <<>>
            /\ UNCHANGED stepTrace
            /\ Finish("completeTransfer", FALSE, Err("Attestation not available"), res)
     ELSE IF ~signerOk
       THEN /\ events' = <<>>
            /\ UNCHANGED stepTrace
            /\ Finish("completeTransfer", FALSE, Err("SignerError"), res)
     ELSE IF ~IsSupported(destinationChain)
       THEN /\ events' = <<Failed(80, Err("TypeError"))>>
            /\ stepTrace' = Append(stepTrace, "FAILED")
            /\ Finish("completeTransfer", FALSE, Err("TypeError"), res)
     ELSE /\ events' = <<Progress("MINTING", 80)>>
          /\ stepTrace' = Append(stepTrace, "MINTING")
          /\ pc' = "c_minting"
          /\ UNCHANGED <<outcomes, error, poll>>
  /\ UNCHANGED <<configVars, ledger, burnCalls, mintCalls, sent, posts, burnResult,
                 initiateResult, completeResult>>

\* lines 629-649: transfer.minting webhook, identified by the burn tx hash
completeTransfer_SendMinting ==
  /\ pc = "c_minting"
  /\ sendWebhook("transfer.minting", argResult.sourceTransactionHash)
  /\ IF sendWebhookRejects("transfer.minting")
       THEN CatchComplete(Err("WebhookError"))
       ELSE /\ pc' = "c_bytes"
            /\ NoEmit
            /\ UNCHANGED <<outcomes, error, poll>>
  /\ UNCHANGED <<configVars, call, ledger, burnCalls, mintCalls, reads, burnResult,
                 initiateResult, completeResult, argResult>>

\* getMessageBytes (lines 832-841): the bytes from the message API, '0x' when
\* the answer has none or the request fails
getMessageBytes(fetched) == IF fetched = "bytes" THEN "0xmessageBytes" ELSE "0x"

completeTransfer_GetMessageBytes(fetched) ==
  /\ pc = "c_bytes"
  /\ reads' = [reads EXCEPT !.messageBytes = @ + 1]
  /\ call' = [call EXCEPT !.messageBytes = getMessageBytes(fetched)]
  /\ pc' = "c_mint"
  /\ UNCHANGED <<configVars, ledger, events, stepTrace, burnCalls, mintCalls, sent,
                 posts, burnResult, initiateResult, completeResult, argResult,
                 outcomes, error, poll>>

\* the useUnfinalized argument completeTransfer passes to completeMint (line 659)
useUnfinalized == FALSE

\* CCTPService.completeMint (cctp.ts 410-448): the receive method called
MintCall(destinationChain, messageBytes, attestation, unfinalized) ==
  [method |-> IF unfinalized THEN "receiveMessageUnfinalized" ELSE "receiveMessage",
   destinationChain |-> destinationChain, messageBytes |-> messageBytes,
   attestation |-> attestation]

\* lines 654-668 and cctp.ts 428-447: the mint is submitted and confirmed,
\* then COMPLETED is emitted at 100%
completeTransfer_Mint(mintOk) ==
  /\ pc = "c_mint"
  /\ mintCalls' = Append(mintCalls, MintCall(call.destinationChain, call.messageBytes,
                                             argResult.attestation, useUnfinalized))
  /\ IF mintOk
       THEN /\ Emit(Progress("COMPLETED", 100))
            /\ pc' = "c_completed"
            /\ UNCHANGED <<outcomes, error, poll>>
       ELSE CatchComplete(Err("Mint failed"))
  /\ UNCHANGED <<configVars, call, ledger, burnCalls, sent, posts, reads, burnResult,
                 initiateResult, completeResult, argResult>>

\* mutant: the returned result keeps the status it came with
CompletedResult_KeepsStatus(res, mintTxHash) ==
  [res EXCEPT !.destinationTransactionHash = mintTxHash]

\* mutant: the returned result loses the attestation
CompletedResult_DropsAttestation(res, mintTxHash) ==
  [res EXCEPT !.destinationTransactionHash = mintTxHash, !.status = "COMPLETED",
              !.attestation = Undefined]

\* lines 692-696: { ...result, destinationTransactionHash, status: 'COMPLETED' }
CompletedResult(res, mintTxHash) ==
  [res EXCEPT !.destinationTransactionHash = mintTxHash, !.status = "COMPLETED"]

\* lines 670-696: transfer.completed webhook, then a copy of the result with
\* the mint tx hash and status COMPLETED
completeTransfer_Return ==
  /\ pc = "c_completed"
  /\ sendWebhook("transfer.completed", argResult.sourceTransactionHash)
  /\ IF sendWebhookRejects("transfer.completed")
       THEN /\ CatchComplete(Err("WebhookError"))
            /\ UNCHANGED completeResult
       ELSE /\ completeResult' = CompletedResult(argResult, "0xmint")
            /\ Finish("completeTransfer", TRUE, NoErr, argResult)
            /\ NoEmit
  /\ UNCHANGED <<configVars, call, ledger, burnCalls, mintCalls, reads, burnResult,
                 initiateResult, argResult>>

----------------------------------------------------------------------------
(* CrossChainTransferService.getTransferStatus (lines 745-787) *)

\* what the status endpoint answers to one GET: a body with one of the status
\* strings (or another one), a null body, or a failed request
StatusResponses == {"PENDING", "ATTESTED", "COMPLETED", "UNKNOWN", "nullBody", "networkError"}

\* CCTPService.getMessageStatus (cctp.ts 493-502): response.data, or
\* { status: 'PENDING' } when the request fails
getMessageStatus(response) ==
  CASE response = "networkError" -> [isNull |-> FALSE, status |-> "PENDING"]
    [] response = "nullBody"     -> [isNull |-> TRUE, status |-> Undefined]
    [] OTHER                     -> [isNull |-> FALSE, status |-> response]

\* the switch of getTransferStatus (lines 749-778); reading .status of a null
\* body throws inside the try, and the catch returns the FAILED progress
StatusProgress(status) ==
  IF status.isNull THEN Failed(0, Err("Failed to get transfer status"))
  ELSE CASE status.status = "PENDING"   -> Progress("WAITING_ATTESTATION", 40)
         [] status.status = "ATTESTED"  -> Progress("READY_TO_MINT", 75)
         [] status.status = "COMPLETED" -> Progress("COMPLETED", 100)
         [] OTHER                       -> Progress("WAITING_ATTESTATION", 20)

\* the whole query; it reads and writes nothing of the pipeline
getTransferStatus(response) ==
  /\ pc = "idle"
  /\ call' = [op |-> "getTransferStatus", response |-> response,
              returned |-> StatusProgress(getMessageStatus(response))]
  /\ UNCHANGED <<configVars, pc, ledger, events, stepTrace, burnCalls, mintCalls, sent,
                 posts, reads, burnResult, initiateResult, completeResult, argResult,
                 outcomes, error, poll>>

----------------------------------------------------------------------------
(* CCTPService.initiateBurn as one step (cctp.ts 197-373) *)

\* the checks of initiateBurn in their order, then the submission; outcome is
\* what the chain does with a submitted burn
initiateBurn(sourceChain, destinationChain, amount, options, readOk, outcome) ==
  LET burnAmount == parseUnits(amount)
      rejected(err) == [ok |-> FALSE, err |-> err, submitted |-> FALSE, messageHash |-> Undefined]
  IN  IF ~IsSupported(sourceChain) \/ ~IsSupported(destinationChain)
        THEN rejected(Err("Unsupported chain"))
      ELSE IF ~burnAmount.ok
        THEN rejected(Err("ParseError"))
      ELSE IF burnAmount.value <= 0
        THEN rejected(Err("Invalid amount"))
      ELSE IF checkUSDCBalance(readOk) < parseFloat(amount)
        THEN rejected(Err("Insufficient USDC balance"))
      ELSE IF checkUSDCAllowance(readOk) < parseFloat(amount)
        THEN rejected(Err("Insufficient USDC allowance"))
      ELSE IF outcome = "submitFailed"
        THEN [ok |-> FALSE, err |-> Wrapped("Transaction failed", "submission rejected"),
              submitted |-> TRUE, messageHash |-> Undefined]
      ELSE IF outcome = "receiptFailed"
        THEN [ok |-> FALSE, err |-> Wrapped("Transaction failed", "receipt"),
              submitted |-> TRUE, messageHash |-> Undefined]
      ELSE IF ~extractMessageHashFromReceipt(outcome # "noMessage").ok
        THEN [ok |-> FALSE, err |-> Wrapped("Transaction failed", "MessageSent event not found"),
              submitted |-> TRUE, messageHash |-> Undefined]
      ELSE [ok |-> TRUE, err |-> NoErr, submitted |-> TRUE,
            messageHash |-> extractMessageHashFromReceipt(TRUE).messageHash]

----------------------------------------------------------------------------
(* CCTPHooksService hook executors and MerchantHookManager (hooks.ts) *)

RebalanceGasLimit == 500000

\* the HookMetadata executeRebalanceHook builds (lines 64-68)
RebalanceMetadata ==
  [present |-> TRUE, hookType |-> "REBALANCE", executionTiming |-> "POST_MINT",
   gasSet |-> TRUE, gasLimit |-> RebalanceGasLimit, callbackData |-> Undefined]

\* mutant: a failed POST is re-thrown to the caller
executeNotificationHook_Rethrows(messageHash, webhookUrl, merchantId, fate) ==
  [post |-> [url |-> webhookUrl, event |-> "PAYMENT_RECEIVED", id |-> messageHash,
             response |-> fate],
   threw |-> fate = "networkError"]

\* executeNotificationHook (lines 83-108): one POST to the merchant's URL; a
\* rejected fetch is caught and logged, an HTTP error status is not looked at
executeNotificationHook(messageHash, webhookUrl, merchantId, fate) ==
  [post |-> [url |-> webhookUrl, event |-> "PAYMENT_RECEIVED", id |-> messageHash,
             response |-> fate],
   threw |-> FALSE]

\* ethers.isAddress of the configured token
IsAddress(token) == token = "0xtoken"

\* executeSwapHook (lines 110-137): packs (address, uint256) twice; packing
\* throws on a token that is no address and on an amount that is no unsigned
\* number, otherwise the hook id is the hash of the packed values
executeSwapHook(amount, targetToken) ==
  LET value == parseUnits(amount)
  IN  IF IsAddress(targetToken) /\ value.ok /\ value.value >= 0
        THEN [ok |-> TRUE, hookId |-> <<"swapHookId", targetToken, value.value>>]
        ELSE [ok |-> FALSE, hookId |-> <<>>]

\* the strings pushed on executedHooks: 'NOTIFICATION', `REBALANCE:${hookId}`,
\* `SWAP:${hookId}`
Tag(kind, hookId) == [tag |-> kind, id |-> hookId]

\* mutant: a new tag is put in front of the earlier ones
PushTag_Prepends(executedHooks, tag) == <<tag>> \o executedHooks

\* executedHooks.push(tag)
PushTag(executedHooks, tag) == Append(executedHooks, tag)

getMerchantConfig(merchantId) == configs[merchantId]

\* setMerchantConfig (lines 190-192)
setMerchantConfig(merchantId, config) ==
  /\ pc = "idle"
  /\ CallsOf("processPaymentHooks") = {}
  /\ configs' = [configs EXCEPT ![merchantId] = config]
  /\ UNCHANGED <<enableFastTransfer, webhookConfigs, transfers, clientLatency, pc, call, ledger,
                 events, stepTrace, burnCalls, mintCalls, sent, posts, reads,
                 burnResult, initiateResult, completeResult, argResult, outcomes,
                 error, poll>>

\* processPaymentHooks, entry (lines 205-209): an unknown merchant gets []
processPaymentHooks(merchantId, messageHash, amount, destinationChain) ==
  /\ pc = "idle"
  /\ CallsOf("processPaymentHooks") = {}
  /\ call' = [op |-> "processPaymentHooks", merchantId |-> merchantId,
              messageHash |-> messageHash, amount |-> amount,
              destinationChain |-> destinationChain,
              config |-> getMerchantConfig(merchantId),
              executedHooks |-> <<>>, invoked |-> <<>>]
  /\ IF ~getMerchantConfig(merchantId).present
       THEN Finish("processPaymentHooks", TRUE, NoErr, <<>>)
       ELSE /\ pc' = "h_notify"
            /\ UNCHANGED <<outcomes, error, poll>>
  /\ UNCHANGED <<configVars, ledger, events, stepTrace, burnCalls, mintCalls, sent,
                 posts, reads, burnResult, initiateResult, completeResult, argResult>>

\* lines 211-219: the notification hook, when a webhookUrl is configured
processPaymentHooks_Notify(fate) ==
  /\ pc = "h_notify"
  /\ IF Truthy(call.config.webhookUrl)
       THEN LET done == executeNotificationHook(call.messageHash, call.config.webhookUrl,
                                                call.merchantId, fate)
            IN  /\ posts' = Append(posts, done.post)
                /\ IF done.threw
                     THEN /\ call' = [call EXCEPT !.invoked = Append(@, "notify")]
                          /\ Finish("processPaymentHooks", FALSE, Err("fetch failed"), <<>>)
                     ELSE /\ call' = [call EXCEPT
                                        !.invoked = Append(@, "notify"),
                                        !.executedHooks = PushTag(@, Tag("NOTIFICATION", <<>>))]
                          /\ pc' = "h_rebalance"
                          /\ UNCHANGED <<outcomes, error, poll>>
       ELSE /\ pc' = "h_rebalance"
            /\ UNCHANGED <<posts, call, outcomes, error, poll>>
  /\ UNCHANGED <<configVars, ledger, events, stepTrace, burnCalls, mintCalls, sent,
                 reads, burnResult, initiateResult, completeResult, argResult>>

\* lines 221-230 and 55-81: the rebalance hook, when a rebalanceTarget is
\* configured: the signer's address is resolved, then a hook-carrying burn from
\* the destination chain to the target is made; its rejection is not caught
processPaymentHooks_Rebalance(signerOk, readOk, outcome) ==
  /\ pc = "h_rebalance"
  /\ IF Truthy(call.config.rebalanceTarget)
       THEN LET options == HookOptions(RebalanceMetadata)
                burn == initiateBurn(call.destinationChain, call.config.rebalanceTarget,
                                     call.amount, options, readOk, outcome)
                hookId == deriveHookId(call.destinationChain, call.config.rebalanceTarget,
                                       burn.messageHash)
            IN  IF ~signerOk
                  THEN /\ call' = [call EXCEPT !.invoked = Append(@, "rebalance")]
                       /\ UNCHANGED burnCalls
                       /\ Finish("processPaymentHooks", FALSE, Err("SignerError"), <<>>)
                ELSE /\ burnCalls' =
                          IF burn.submitted
                            THEN Append(burnCalls,
                                        BurnCall(BurnBranch(call.destinationChain,
                                                            call.config.rebalanceTarget, options),
                                                 call.destinationChain,
                                                 call.config.rebalanceTarget,
                                                 parseUnits(call.amount).value, options))
                            ELSE burnCalls
                     /\ IF burn.ok
                          THEN /\ call' = [call EXCEPT
                                             !.invoked = Append(@, "rebalance"),
                                             !.executedHooks = PushTag(@, Tag("REBALANCE", hookId))]
                               /\ pc' = "h_swap"
                               /\ UNCHANGED <<outcomes, error, poll>>
                          ELSE /\ call' = [call EXCEPT !.invoked = Append(@, "rebalance")]
                               /\ Finish("processPaymentHooks", FALSE, burn.err, <<>>)
       ELSE /\ pc' = "h_swap"
            /\ UNCHANGED <<burnCalls, call, outcomes, error, poll>>
  /\ UNCHANGED <<configVars, ledger, events, stepTrace, mintCalls, sent, posts,
                 reads, burnResult, initiateResult, completeResult, argResult>>

\* lines 232-243 and 110-137: the swap hook, when an autoSwapToken is
\* configured, then the list of tags is returned
processPaymentHooks_Swap ==
  /\ pc = "h_swap"
  /\ IF Truthy(call.config.autoSwapToken)
       THEN LET swap == executeSwapHook(call.amount, call.config.autoSwapToken)
            IN  IF swap.ok
                  THEN /\ call' = [call EXCEPT
                                     !.invoked = Append(@, "swap"),
                                     !.executedHooks = PushTag(@, Tag("SWAP", swap.hookId))]
                       /\ Finish("processPaymentHooks", TRUE, NoErr,
                                 PushTag(call.executedHooks, Tag("SWAP", swap.hookId)))
                  ELSE /\ call' = [call EXCEPT !.invoked = Append(@, "swap")]
                       /\ Finish("processPaymentHooks", FALSE, Err("PackError"), <<>>)
       ELSE /\ UNCHANGED call
            /\ Finish("processPaymentHooks", TRUE, NoErr, call.executedHooks)
  /\ UNCHANGED <<configVars, ledger, events, stepTrace, burnCalls, mintCalls, sent,
                 posts, reads, burnResult, initiateResult, completeResult, argResult>>

----------------------------------------------------------------------------
(* Concurrent initiateTransfer calls (cross-chain-transfer.ts 388-605) *)

\* Each call keeps its arguments, its position and the steps delivered to its
\* own onProgress callback in its own record; the calls run on one event loop,
\* so one of them advances from an await to its next await at a time.  The
\* calls are made with one signer: the USDC balance and allowance they read
\* and spend are those of one wallet.

\* onProgress of transfer t receives a step
Deliver(t, step) == [transfers[t] EXCEPT !.steps = Append(@, step)]

\* catch block of transfer t: FAILED is delivered, then the error is re-thrown
Reject(t, err) ==
  [transfers[t] EXCEPT !.steps = Append(@, "FAILED"), !.pc = "ended",
                       !.ended = TRUE, !.ok = FALSE, !.err = err]

\* lines 401-486 and cctp.ts 205-216: BURNING is delivered, then the amount is
\* parsed and validated
concurrent_initiateTransfer(t, amount, useFastTransfer) ==
  /\ transfers[t].pc = "new"
  /\ LET started == [transfers[t] EXCEPT !.amount = amount,
                                         !.useFastTransfer = useFastTransfer,
                                         !.steps = <<"BURNING">>]
         burnAmount == parseUnits(amount)
     IN  transfers' =
           [transfers EXCEPT ![t] =
              IF ~burnAmount.ok
                THEN [started EXCEPT !.steps = Append(@, "FAILED"), !.pc = "ended",
                                     !.ended = TRUE, !.err = Err("ParseError")]
              ELSE IF burnAmount.value <= 0
                THEN [started EXCEPT !.steps = Append(@, "FAILED"), !.pc = "ended",
                                     !.ended = TRUE, !.err = Err("Invalid amount")]
              ELSE [started EXCEPT !.pc = "b_balance"]]
  /\ UNCHANGED <<enableFastTransfer, webhookConfigs, configs, clientLatency, pc, call,
                 ledger, events, stepTrace, burnCalls, mintCalls, sent, posts, reads,
                 burnResult, initiateResult, completeResult, argResult, outcomes,
                 error, poll>>

\* cctp.ts 218-223: the wallet's balance is read and compared with the amount
concurrent_CheckBalance(t, readOk) ==
  /\ transfers[t].pc = "b_balance"
  /\ transfers' =
       [transfers EXCEPT ![t] =
          IF checkUSDCBalance(readOk) < parseFloat(transfers[t].amount)
            THEN Reject(t, Err("Insufficient USDC balance"))
            ELSE [@ EXCEPT !.pc = "b_allowance"]]
  /\ UNCHANGED <<enableFastTransfer, webhookConfigs, configs, clientLatency, pc, call,
                 ledger, events, stepTrace, burnCalls, mintCalls, sent, posts, reads,
                 burnResult, initiateResult, completeResult, argResult, outcomes,
                 error, poll>>

\* cctp.ts 225-229: the allowance is read and compared with the amount
concurrent_CheckAllowance(t, readOk) ==
  /\ transfers[t].pc = "b_allowance"
  /\ transfers' =
       [transfers EXCEPT ![t] =
          IF checkUSDCAllowance(readOk) < parseFloat(transfers[t].amount)
            THEN Reject(t, Err("Insufficient USDC allowance"))
            ELSE [@ EXCEPT !.pc = "b_submit"]]
  /\ UNCHANGED <<enableFastTransfer, webhookConfigs, configs, clientLatency, pc, call,
                 ledger, events, stepTrace, burnCalls, mintCalls, sent, posts, reads,
                 burnResult, initiateResult, completeResult, argResult, outcomes,
                 error, poll>>

\* depositForBurn on chain: the token contract takes the amount from the
\* wallet's balance and allowance, or reverts when either does not cover it
BurnExecutes(amount) ==
  ledger.balance >= parseFloat(amount) /\ ledger.allowance >= parseFloat(amount)

\* cctp.ts 237-372 and cross-chain-transfer.ts 488-494: the burn is submitted
\* and mined, then WAITING_ATTESTATION is delivered; a reverted burn is caught
\* and re-thrown as 'Transaction failed'
concurrent_Submit(t) ==
  /\ transfers[t].pc = "b_submit"
  /\ IF BurnExecutes(transfers[t].amount)
       THEN /\ ledger' = [balance |-> ledger.balance - parseFloat(transfers[t].amount),
                          allowance |-> ledger.allowance - parseFloat(transfers[t].amount)]
            /\ burnCalls' = Append(burnCalls, [transfer |-> t,
                                               amount |-> parseUnits(transfers[t].amount).value])
            /\ transfers' = [transfers EXCEPT ![t] =
                               [Deliver(t, "WAITING_ATTESTATION") EXCEPT !.pc = "p_loop"]]
       ELSE /\ transfers' = [transfers EXCEPT ![t] =
                               Reject(t, Wrapped("Transaction failed", "reverted"))]
            /\ UNCHANGED <<ledger, burnCalls>>
  /\ UNCHANGED <<enableFastTransfer, webhookConfigs, configs, clientLatency, pc, call,
                 events, stepTrace, mintCalls, sent, posts, reads, burnResult,
                 initiateResult, completeResult, argResult, outcomes, error, poll>>

\* lines 518-570: the poll ends with an attestation (READY_TO_MINT, the result
\* is returned) or with the timeout
concurrent_Poll(t, attested) ==
  /\ transfers[t].pc = "p_loop"
  /\ transfers' =
       [transfers EXCEPT ![t] =
          IF attested
            THEN [Deliver(t, "READY_TO_MINT") EXCEPT !.pc = "ended", !.ended = TRUE,
                                                     !.ok = TRUE]
            ELSE Reject(t, Err("Attestation timed out"))]
  /\ UNCHANGED <<enableFastTransfer, webhookConfigs, configs, clientLatency, pc, call,
                 ledger, events, stepTrace, burnCalls, mintCalls, sent, posts, reads,
                 burnResult, initiateResult, completeResult, argResult, outcomes,
                 error, poll>>

----------------------------------------------------------------------------
(* CCTPHooksService.encodeHookMetadata applied on its own (hooks.ts 139-152) *)

encodeHookMetadata_Apply(metadata) ==
  /\ pc = "idle"
  /\ call' = [op |-> "encodeHookMetadata", metadata |-> metadata,
              returned |-> encodeHookMetadata(metadata)]
  /\ UNCHANGED <<configVars, pc, ledger, events, stepTrace, burnCalls, mintCalls, sent,
                 posts, reads, burnResult, initiateResult, completeResult, argResult,
                 outcomes, error, poll>>

----------------------------------------------------------------------------
(* Specifications *)

Next ==
  \/ \E sourceChain \in SourceInputs, destinationChain \in DestInputs,
        amount \in Amounts, useFastTransfer \in BOOLEAN, enableHooks \in BOOLEAN,
        hookMetadata \in HookMetadataInputs, signerOk \in BOOLEAN :
       initiateTransfer(sourceChain, destinationChain, amount, useFastTransfer,
                        enableHooks, hookMetadata, signerOk)
  \/ initiateTransfer_SendInitiated
  \/ initiateTransfer_SendBurning
  \/ \E readOk \in BOOLEAN : initiateBurn_CheckBalance(readOk)
  \/ \E readOk \in BOOLEAN : initiateBurn_CheckAllowance(readOk)
  \/ \E outcome \in {"precheckFailed", "estimateFailed", "submitFailed", "ok"} :
       initiateBurn_Submit(outcome)
  \/ \E receiptOk \in BOOLEAN, messageFound \in BOOLEAN :
       initiateBurn_Receipt(receiptOk, messageFound)
  \/ initiateTransfer_SendPending
  \/ \E response \in ApiResponses : waitForAttestation_Attempt(response)
  \/ waitForAttestation_Sleep
  \/ waitForAttestation_Timeout
  \/ initiateTransfer_Ready
  \/ initiateTransfer_Return
  \/ initiateTransfer_Rethrow
  \/ \E res \in CandidateResults, destinationChain \in DestInputs, signerOk \in BOOLEAN :
       completeTransfer(res, destinationChain, signerOk)
  \/ completeTransfer_SendMinting
  \/ \E fetched \in {"bytes", "empty", "error"} : completeTransfer_GetMessageBytes(fetched)
  \/ \E mintOk \in BOOLEAN : completeTransfer_Mint(mintOk)
  \/ completeTransfer_Return

Spec == Init /\ [][Next]_vars

\* the poller on its own: waitForAttestationWithProgress(messageHash, T, onProgress)
\* with T drawn from Waits and a callback that records what it receives
PollInit ==
  /\ enableFastTransfer \in BOOLEAN
  /\ webhookConfigs = <<>>
  /\ configs = NoConfigs
  /\ transfers = NoTransfers
  /\ clientLatency \in {0, SlowCall}
  /\ ledger = [balance |-> 0, allowance |-> 0]
  /\ pc = "p_loop"
  /\ call = NoCall
  /\ events = <<>>
  /\ stepTrace = <<>>
  /\ burnCalls = <<>>
  /\ mintCalls = <<>>
  /\ sent = <<>>
  /\ posts = <<>>
  /\ reads = NoReads
  /\ burnResult = NoBurnResult
  /\ initiateResult = NoResult
  /\ completeResult = NoResult
  /\ argResult = NoResult
  /\ outcomes = <<>>
  /\ error = NoErr
  /\ \E T \in Waits : poll = [PollIdle EXCEPT !.caller = "standalone", !.maxWaitTime = T]

PollNext ==
  \/ \E response \in ApiResponses : waitForAttestation_Attempt(response)
  \/ waitForAttestation_Sleep
  \/ waitForAttestation_Timeout

PollSpec == PollInit /\ [][PollNext]_vars

\* the event loop runs every pending continuation and timer
FairPollSpec == PollSpec /\ WF_vars(PollNext)

\* status queries on their own, under every configuration
StatusNext == \E response \in StatusResponses : getTransferStatus(response)

StatusSpec == Init /\ [][StatusNext]_vars

\* the merchant hook manager on its own: a merchant is configured, then one
\* payment is dispatched
HookNext ==
  \/ \E config \in MerchantConfigInputs : setMerchantConfig("merchant-1", config)
  \/ \E merchantId \in MerchantIds, amount \in Amounts, destinationChain \in DestInputs :
       processPaymentHooks(merchantId, "0xmessage", amount, destinationChain)
  \/ \E fate \in FetchOutcomes : processPaymentHooks_Notify(fate)
  \/ \E signerOk \in BOOLEAN, readOk \in BOOLEAN,
        outcome \in {"ok", "submitFailed", "receiptFailed", "noMessage"} :
       processPaymentHooks_Rebalance(signerOk, readOk, outcome)
  \/ processPaymentHooks_Swap

HookSpec == Init /\ [][HookNext]_vars

\* several initiateTransfer calls with their awaits interleaved in any order
ConcurrentNext ==
  \E t \in TransferIds :
    \/ \E amount \in Amounts, useFastTransfer \in BOOLEAN :
         concurrent_initiateTransfer(t, amount, useFastTransfer)
    \/ \E readOk \in BOOLEAN : concurrent_CheckBalance(t, readOk)
    \/ \E readOk \in BOOLEAN : concurrent_CheckAllowance(t, readOk)
    \/ concurrent_Submit(t)
    \/ \E attested \in BOOLEAN : concurrent_Poll(t, attested)

ConcurrentSpec == Init /\ [][ConcurrentNext]_vars

\* the encoder on its own, applied to every metadata value drawn
EncodeNext == \E metadata \in EncodeInputs : encodeHookMetadata_Apply(metadata)

EncodeSpec == Init /\ [][EncodeNext]_vars

----------------------------------------------------------------------------
(* Claims *)

InitiateCall == call.op = "initiateTransfer"
HooksRequested == call.enableHooks /\ call.hookMetadata.present
AfterBurnSubmitted == pc \in {"b_receipt", "i_pending", "p_loop", "p_sleep", "p_returned", "i_ready"}
LastOutcome == Last(outcomes)
CallEnded(op) == pc = "idle" /\ outcomes # <<>> /\ LastOutcome.op = op /\ call.op = op

\* C1: an initiateTransfer call with enableHooks set and a hookMetadata present
\* only ever invokes depositForBurnWithHook, whatever useFastTransfer and the
\* chains' fast-transfer capability are; once its burn is submitted there is
\* exactly one such call
C1_HooksTakePrecedence ==
  (InitiateCall /\ HooksRequested) =>
    /\ \A i \in 1..Len(burnCalls) :
         /\ burnCalls[i].method = "depositForBurnWithHook"
         /\ burnCalls[i].branch = "hook"
    /\ AfterBurnSubmitted => Len(burnCalls) = 1

C1_Witness ==
  /\ InitiateCall /\ HooksRequested
  /\ call.useFastTransfer /\ enableFastTransfer
  /\ pc = "b_receipt"
  /\ Len(burnCalls) = 1 /\ burnCalls[1].method = "depositForBurnWithHook"

Terminal(step) == step \in {"COMPLETED", "FAILED"}

PipelineSucc(step) ==
  CASE step = "BURNING"             -> "WAITING_ATTESTATION"
    [] step = "WAITING_ATTESTATION" -> "READY_TO_MINT"
    [] step = "READY_TO_MINT"       -> "MINTING"
    [] step = "MINTING"             -> "COMPLETED"
    [] OTHER                        -> "none"

\* C2 as claimed: over all calls made for the transfer the delivered steps
\* follow BURNING -> WAITING_ATTESTATION -> READY_TO_MINT -> MINTING ->
\* COMPLETED, FAILED comes only after a non-terminal step, and nothing is
\* delivered after COMPLETED or FAILED
C2_StepsNeverReentered ==
  /\ stepTrace # <<>> => stepTrace[1] \in {"BURNING", "FAILED"}
  /\ \A i \in 1..(Len(stepTrace) - 1) :
       /\ ~Terminal(stepTrace[i])
       /\ stepTrace[i + 1] \in {PipelineSucc(stepTrace[i]), "FAILED"}

\* C2 as amended: within one call the steps follow the pipeline order, FAILED
\* or COMPLETED is the last event of its call and READY_TO_MINT the last of
\* initiateTransfer; over the calls a step follows its predecessor in the
\* pipeline, except that a repeated completeTransfer starts again at MINTING
\* (or fails at once) after the FAILED or COMPLETED of an earlier call
C2_OrderWithinEachCall ==
  /\ events # <<>> => events[1].step \in {"BURNING", "MINTING", "FAILED"}
  /\ \A i \in 1..(Len(events) - 1) :
       /\ ~Terminal(events[i].step)
       /\ events[i].step # "READY_TO_MINT"
       /\ \/ events[i + 1].step \in {PipelineSucc(events[i].step), "FAILED"}
          \/ /\ events[i].step = "WAITING_ATTESTATION"
             /\ events[i + 1].step = "WAITING_ATTESTATION"
  /\ stepTrace # <<>> => stepTrace[1] \in {"BURNING", "FAILED"}
  /\ \A i \in 1..(Len(stepTrace) - 1) :
       \/ stepTrace[i + 1] \in {PipelineSucc(stepTrace[i]), "FAILED"}
       \/ Terminal(stepTrace[i]) /\ stepTrace[i + 1] = "MINTING"
  /\ \A i, j \in 1..Len(stepTrace) :
       (i < j /\ stepTrace[i] = stepTrace[j]) => stepTrace[i] \in {"MINTING", "COMPLETED", "FAILED"}

C2_Witness ==
  /\ CallEnded("completeTransfer")
  /\ stepTrace = <<"BURNING", "WAITING_ATTESTATION", "READY_TO_MINT", "MINTING", "FAILED",
                   "MINTING", "COMPLETED">>

\* C3 as claimed: whenever initiateTransfer or completeTransfer rejects, the
\* last progress event delivered during that call is FAILED and carries the
\* message of the error the caller receives
C3_FailedBeforeRejection ==
  (pc = "idle" /\ outcomes # <<>> /\ ~LastOutcome.ok) =>
    /\ events # <<>>
    /\ Last(events).step = "FAILED"
    /\ Last(events).err = LastOutcome.err.kind

InvalidAmount(amount) == amount.kind = "nan" \/ amount.micro <= 0

\* C9 as claimed: an initiateTransfer call whose amount is zero, negative or
\* not a number (signer and chains being fine) is rejected with the
\* invalid-amount error, and no webhook POST, balance or allowance read, burn
\* submission or attestation query was made during it
C9_InvalidAmountBeforeNetwork ==
  ( /\ CallEnded("initiateTransfer")
    /\ InvalidAmount(call.amount)
    /\ IsSupported(call.sourceChain) /\ IsSupported(call.destinationChain)
    /\ LastOutcome.err.kind # "SignerError" ) =>
    /\ ~LastOutcome.ok
    /\ LastOutcome.err.kind \in {"Invalid amount", "ParseError"}
    /\ posts = <<>>
    /\ reads = NoReads
    /\ burnCalls = <<>>

\* C10 as claimed: when useFastTransfer is requested without a hook payload
\* and the source or the destination chain lacks supportsFastTransfer, the burn
\* submitted is depositForBurn with the standard minFinalityThreshold, and the
\* unmet request raises no error
C10_FallbackIsStandardBurn ==
  ( /\ InitiateCall
    /\ call.useFastTransfer /\ ~HooksRequested
    /\ IsSupported(call.sourceChain) /\ IsSupported(call.destinationChain)
    /\ ~( /\ SUPPORTED_CHAINS[call.sourceChain].supportsFastTransfer
          /\ SUPPORTED_CHAINS[call.destinationChain].supportsFastTransfer ) ) =>
    /\ \A i \in 1..Len(burnCalls) :
         /\ burnCalls[i].method = "depositForBurn"
         /\ burnCalls[i].minFinalityThreshold = StandardFinalityThreshold
         /\ burnCalls[i].minFinalityThreshold # FastFinalityThreshold
    /\ pc = "b_receipt" => Len(burnCalls) = 1 /\ error = NoErr

Ready(response) == response \in {"complete", "direct"}
NeverReady == \A i \in 1..Len(poll.answers) : ~Ready(poll.answers[i])
TimedOut == pc = "p_thrown" /\ error.kind = "Attestation timed out"

\* C4: a poll with maxWaitTime = T whose client never answers with a non-empty
\* attestation ends by throwing the attestation-timeout error; with client
\* calls taking no time the poll never runs past T plus one poll interval, and
\* makes no client call at or after T
C4_TimeoutWithinOneInterval ==
  /\ [](clientLatency = 0 =>
          /\ poll.elapsed <= poll.maxWaitTime + checkInterval
          /\ poll.attemptCount * checkInterval <= poll.maxWaitTime + checkInterval
          /\ pc = "p_sleep" => poll.elapsed < poll.maxWaitTime)
  /\ [](pc = "p_thrown" => TimedOut /\ poll.elapsed >= poll.maxWaitTime)
  /\ ([]NeverReady => <>TimedOut)

C4_Witness ==
  /\ TimedOut
  /\ clientLatency = 0
  /\ poll.maxWaitTime > checkInterval
  /\ poll.elapsed > poll.maxWaitTime
  /\ poll.attemptCount >= 2
  /\ \E i, j \in 1..Len(poll.answers) :
       poll.answers[i] = "networkError" /\ poll.answers[j] = "pending"

HundredReports == {i \in 1..Len(poll.reports) : poll.reports[i] = ReportDone(poll.maxWaitTime)}

\* C5: the poll returns in the first iteration whose client answer carries a
\* non-empty attestation, with that attestation and with no client call or
\* sleep after it; the callback receives 100 exactly once in a poll that
\* returns, as its last report, and never in a poll that has not returned
C5_ReturnsOnFirstReady ==
  /\ Cardinality(HundredReports) <= 1
  /\ HundredReports # {} <=> pc = "p_returned"
  /\ \A i \in 1..(Len(poll.answers) - 1) : ~Ready(poll.answers[i])
  /\ pc = "p_returned" =>
       /\ Ready(Last(poll.answers))
       /\ poll.attestation = getAttestation(Last(poll.answers)).value
       /\ poll.attestation = "0xatt"
       /\ HundredReports = {Len(poll.reports)}
       /\ Len(poll.answers) = poll.attemptCount
       /\ reads.attestation = poll.attemptCount
       /\ poll.sleeps = poll.attemptCount - 1
  /\ pc = "p_thrown" => HundredReports = {} /\ poll.attestation = Undefined

C5_Witness ==
  /\ pc = "p_returned"
  /\ poll.attemptCount = 3
  /\ poll.sleeps = 2
  /\ clientLatency = SlowCall
  /\ poll.answers = <<"pending", "networkError", "direct">>
  /\ poll.reports[2] < ProgressCap * poll.maxWaitTime
  /\ poll.reports[3] = ReportDone(poll.maxWaitTime)
  /\ poll.elapsed + checkInterval > poll.maxWaitTime

\* C6: a client call that throws or answers without an attestation never ends
\* the poll: it is followed by the sleep; the only error the poll raises is the
\* timeout, raised only once the deadline has passed with no ready answer, and
\* a ready answer to a call made before the deadline makes the poll return
\* even after errors and not-ready answers
C6_OnlyTimeoutFails ==
  /\ error.kind \in {"none", "Attestation timed out"}
  /\ error.kind = "Attestation timed out" <=> pc = "p_thrown"
  /\ pc = "p_thrown" => NeverReady /\ ~LoopContinues(poll.elapsed, poll.maxWaitTime)
  /\ pc = "p_returned" => Ready(Last(poll.answers))
  /\ (poll.answers # <<>> /\ ~Ready(Last(poll.answers))) =>
       \/ pc = "p_sleep"
       \/ pc = "p_loop" /\ poll.sleeps = poll.attemptCount
       \/ pc = "p_thrown" /\ poll.sleeps = poll.attemptCount
  /\ (poll.answers # <<>> /\ Ready(Last(poll.answers))) =>
       pc = "p_returned" /\ error = NoErr

C6_Witness ==
  /\ pc = "p_returned"
  /\ error = NoErr
  /\ Len(poll.answers) = 4
  /\ poll.answers[1] = "networkError"
  /\ poll.answers[2] = "pending"
  /\ poll.answers[3] = "empty"
  /\ poll.answers[4] = "complete"

Attested(res) == res.status \in {"ATTESTED", "COMPLETED"}
ReachedMint(outcome) == outcome.ok \/ outcome.err.kind = "Mint failed"
MintsReached ==
  Cardinality({i \in CallsOf("completeTransfer") : ReachedMint(outcomes[i])})
    + (IF pc = "c_completed" THEN 1 ELSE 0)

\* C7: no completeTransfer call given the result initiateTransfer returned or
\* the result an earlier completeTransfer returned, first or repeated, is
\* rejected with 'Attestation not available': unless the signer or the chain
\* lookup fails it submits the mint, once per call, and only the mint can fail;
\* the result object it was given is the same after the call as before
C7_RetryReachesMint ==
  /\ \A i \in CallsOf("completeTransfer") :
       Attested(outcomes[i].res) =>
         /\ outcomes[i].err.kind \in {"none", "Mint failed", "SignerError", "TypeError"}
         /\ outcomes[i].res \in {initiateResult, completeResult}
         /\ outcomes[i].res.status = "ATTESTED" => outcomes[i].res = initiateResult
  /\ Len(mintCalls) = MintsReached
  /\ \A i \in 1..Len(mintCalls) : mintCalls[i].attestation = initiateResult.attestation
  /\ initiateResult.status \in {"NONE", "ATTESTED"}
  /\ completeResult.status = "COMPLETED" =>
       completeResult = CompletedResult(initiateResult, completeResult.destinationTransactionHash)

C7_Witness ==
  /\ pc = "idle"
  /\ Len(outcomes) = 3
  /\ outcomes[2].op = "completeTransfer" /\ outcomes[2].ok
  /\ outcomes[2].res = initiateResult
  /\ outcomes[3].op = "completeTransfer" /\ outcomes[3].err.kind = "Mint failed"
  /\ outcomes[3].res = completeResult
  /\ Len(mintCalls) = 2

CompleteTransferStarts == pc = "idle" /\ call'.op = "completeTransfer"

\* C8: a completeTransfer call whose result has an absent or empty attestation
\* is rejected at once with 'Attestation not available': no mint is submitted,
\* no message bytes are looked up, no webhook is sent and no progress event is
\* delivered
C8_MissingAttestationRejected ==
  [][ (CompleteTransferStarts /\ argResult'.attestation \in {Undefined, ""}) =>
        /\ pc' = "idle"
        /\ Len(outcomes') = Len(outcomes) + 1
        /\ ~Last(outcomes').ok
        /\ Last(outcomes').op = "completeTransfer"
        /\ Last(outcomes').err.kind = "Attestation not available"
        /\ mintCalls' = mintCalls
        /\ reads'.messageBytes = 0
        /\ sent' = sent /\ posts' = posts
        /\ events' = <<>> ]_vars

C8_Witness ==
  /\ CallEnded("completeTransfer")
  /\ LastOutcome.err.kind = "Attestation not available"
  /\ LastOutcome.res.attestation = ""
  /\ reads = NoReads
  /\ events = <<>>

BothChainsFast ==
  /\ IsSupported(call.sourceChain) /\ IsSupported(call.destinationChain)
  /\ SUPPORTED_CHAINS[call.sourceChain].supportsFastTransfer
  /\ SUPPORTED_CHAINS[call.destinationChain].supportsFastTransfer

C12_StandardTimeoutTenfold ==
  (InitiateCall /\ poll.caller = "initiateTransfer") =>
    IF call.useFastTransfer
      THEN PollTimeoutFor(FALSE) >= 10 * poll.maxWaitTime
      ELSE poll.maxWaitTime >= 10 * PollTimeoutFor(TRUE)

MessageNotFound == "MessageSent event not found"

\* C13 as claimed: when the confirmed burn receipt holds no MessageSent log,
\* initiateTransfer rejects with the message-not-found error itself, not with
\* a generic transaction-failure error, after a FAILED event at 0%, and never
\* queries the attestation
C13_MessageNotFoundSurfaces ==
  ( /\ CallEnded("initiateTransfer")
    /\ MessageNotFound \in {LastOutcome.err.kind, LastOutcome.err.cause} ) =>
    /\ ~LastOutcome.ok
    /\ LastOutcome.err.kind = MessageNotFound
    /\ Last(events).step = "FAILED" /\ Last(events).num = 0
    /\ reads.attestation = 0
    /\ poll = PollIdle

TransferWasFast == burnCalls # <<>> /\ burnCalls[1].branch = "fast"

\* C14 as claimed: the mint is submitted with receiveMessageUnfinalized
\* exactly when the transfer was burned with the fast-finality variant, and
\* with receiveMessage otherwise
C14_ReceiveVariantFollowsBurn ==
  \A i \in 1..Len(mintCalls) :
    mintCalls[i].method =
      IF TransferWasFast THEN "receiveMessageUnfinalized" ELSE "receiveMessage"

CompleteSucceeded == CallEnded("completeTransfer") /\ LastOutcome.ok

\* C15: a completeTransfer call whose mint succeeds delivers exactly MINTING
\* at 80% and then COMPLETED at 100%, COMPLETED only once the mint of this
\* call is submitted and confirmed, and returns a result that has the mint
\* transaction hash as destinationTransactionHash, status COMPLETED and every
\* other field as in the result it was given, which is itself unchanged
C15_CompleteSuccessFrame ==
  /\ (call.op = "completeTransfer" /\ events # <<>> /\ Last(events).step = "COMPLETED") =>
       /\ events = <<Progress("MINTING", 80), Progress("COMPLETED", 100)>>
       /\ pc \in {"c_completed", "idle"}
       /\ mintCalls # <<>>
       /\ Last(mintCalls).attestation = argResult.attestation
       /\ Len(mintCalls) = MintsReached
  /\ CompleteSucceeded =>
       /\ events = <<Progress("MINTING", 80), Progress("COMPLETED", 100)>>
       /\ completeResult.status = "COMPLETED"
       /\ completeResult.destinationTransactionHash = "0xmint"
       /\ completeResult.sourceTransactionHash = LastOutcome.res.sourceTransactionHash
       /\ completeResult.messageHash = LastOutcome.res.messageHash
       /\ completeResult.attestation = LastOutcome.res.attestation
       /\ completeResult.hookId = LastOutcome.res.hookId
       /\ completeResult.estimatedCompletionTime = LastOutcome.res.estimatedCompletionTime
       /\ LastOutcome.res = argResult

C15_Witness ==
  /\ CompleteSucceeded
  /\ LastOutcome.res = initiateResult
  /\ initiateResult.status = "ATTESTED"
  /\ initiateResult.hookId # <<>>
  /\ completeResult.hookId = initiateResult.hookId
  /\ completeResult.status = "COMPLETED"

\* C16 as claimed: getTransferStatus always returns a progress value, and
\* when the status request fails the value it returns has step FAILED
C16_StatusFailureReported ==
  call.op = "getTransferStatus" =>
    /\ call.returned.step \in {"WAITING_ATTESTATION", "READY_TO_MINT", "COMPLETED", "FAILED"}
    /\ call.response = "networkError" => call.returned.step = "FAILED"

BalanceCovers == ledger.balance >= parseFloat(call.amount)
AllowanceCovers == ledger.allowance >= parseFloat(call.amount)

\* C17: initiateBurn submits a burn only when the signer's balance and the
\* allowance both cover the amount; the balance is checked first and a
\* shortfall ends the call with the insufficient-balance error before the
\* allowance is read, an allowance shortfall with the insufficient-allowance
\* error; a read that fails counts as zero and so never lets the burn through
C17_BalanceAndAllowanceGate ==
  InitiateCall =>
    /\ burnCalls # <<>> => BalanceCovers /\ AllowanceCovers
    /\ pc = "b_allowance" => BalanceCovers /\ reads.balance = 1
    /\ pc = "b_submit" => BalanceCovers /\ AllowanceCovers /\ reads.allowance = 1
    /\ (pc = "i_failed" /\ reads.balance = 1 /\ reads.allowance = 0) =>
         /\ error = Err("Insufficient USDC balance")
         /\ burnCalls = <<>>
    /\ (pc = "i_failed" /\ reads.allowance = 1 /\ burnCalls = <<>> /\ reads.balance = 1) =>
         /\ error = Err("Insufficient USDC allowance")
         /\ BalanceCovers
    /\ error.kind = "Insufficient USDC balance" => reads.allowance = 0 /\ burnCalls = <<>>
    /\ error.kind = "Insufficient USDC allowance" => burnCalls = <<>>
    /\ AfterBurnSubmitted => BalanceCovers /\ AllowanceCovers /\ Len(burnCalls) = 1

C17_Witness ==
  /\ InitiateCall
  /\ pc = "i_failed"
  /\ error = Err("Insufficient USDC balance")
  /\ BalanceCovers /\ AllowanceCovers
  /\ parseFloat(call.amount) > 0
  /\ burnCalls = <<>>

\* C18 as claimed: an initiateTransfer call whose sourceChain or
\* destinationChain is not a key of the chain registry is rejected with the
\* unsupported-chain error, whichever of the two keys is unknown, and submits
\* no burn
C18_UnknownChainRejected ==
  ( /\ CallEnded("initiateTransfer")
    /\ ~IsSupported(call.sourceChain) \/ ~IsSupported(call.destinationChain)
    /\ LastOutcome.err.kind # "SignerError" ) =>
    /\ ~LastOutcome.ok
    /\ LastOutcome.err.kind = "Unsupported chain"
    /\ burnCalls = <<>>

InitiateReturned == initiateResult.status # "NONE"

\* C20: initiateTransfer returns a result exactly when it ends without error,
\* and that result has status ATTESTED, a non-empty attestation, and the
\* message hash and transaction hash of the one burn the call submitted, so
\* completeTransfer accepts it; READY_TO_MINT is delivered only once the poll
\* has returned a non-empty attestation
C20_ReturnedResultIsAttested ==
  /\ InitiateReturned <=>
       \E i \in CallsOf("initiateTransfer") : outcomes[i].ok
  /\ InitiateReturned =>
       /\ initiateResult.status = "ATTESTED"
       /\ initiateResult.attestation \notin {Undefined, ""}
       /\ initiateResult.messageHash = burnResult.messageHash
       /\ initiateResult.messageHash \notin {Undefined, ""}
       /\ initiateResult.sourceTransactionHash = burnResult.txHash
       /\ initiateResult.sourceTransactionHash \notin {Undefined, ""}
       /\ initiateResult.hookId = burnResult.hookId
       /\ Len(burnCalls) = 1
       /\ initiateResult \in CandidateResults
  /\ (\E i \in 1..Len(stepTrace) : stepTrace[i] = "READY_TO_MINT") =>
       \/ /\ pc = "i_ready"
          /\ poll.attestation \notin {Undefined, ""}
          /\ reads.attestation >= 1
       \/ InitiateReturned

C20_Witness ==
  /\ CallEnded("initiateTransfer")
  /\ LastOutcome.ok
  /\ initiateResult.status = "ATTESTED"
  /\ initiateResult.attestation = "0xatt"
  /\ initiateResult.hookId # <<>>
  /\ reads.attestation >= 2

HookCall == call.op = "processPaymentHooks"
HookConfigured(field) == HookCall /\ call.config.present /\ Truthy(call.config[field])
OnlyWebhookUrl ==
  /\ HookConfigured("webhookUrl")
  /\ ~Truthy(call.config.rebalanceTarget)
  /\ ~Truthy(call.config.autoSwapToken)

\* C21: for a merchant whose configuration has only webhookUrl set,
\* processPaymentHooks invokes the notification hook and no other, issues one
\* POST and no burn, and returns exactly [NOTIFICATION], also when the POST fails
C21_NotificationOnly ==
  OnlyWebhookUrl =>
    /\ burnCalls = <<>>
    /\ \A i \in 1..Len(call.invoked) : call.invoked[i] = "notify"
    /\ Len(posts) <= 1
    /\ CallEnded("processPaymentHooks") =>
         /\ LastOutcome.ok
         /\ LastOutcome.res = <<Tag("NOTIFICATION", <<>>)>>
         /\ call.invoked = <<"notify">>
         /\ Len(posts) = 1

C21_Witness ==
  /\ CallEnded("processPaymentHooks")
  /\ OnlyWebhookUrl
  /\ Len(posts) = 1 /\ posts[1].response = "networkError"
  /\ LastOutcome.ok /\ LastOutcome.res = <<Tag("NOTIFICATION", <<>>)>>

HookRank(name) ==
  CASE name \in {"notify", "NOTIFICATION"} -> 1
    [] name \in {"rebalance", "REBALANCE"} -> 2
    [] OTHER                               -> 3
RebalanceAndSwapOnly ==
  /\ HookConfigured("rebalanceTarget")
  /\ HookConfigured("autoSwapToken")
  /\ ~Truthy(call.config.webhookUrl)
IsPrefix(s, t) == Len(s) <= Len(t) /\ \A i \in 1..Len(s) : s[i] = t[i]

Invoked(name) == \E i \in 1..Len(call.invoked) : call.invoked[i] = name

\* C23 as claimed: when processPaymentHooks has ended, every configured action
\* was executed even if an earlier one failed, and the caller has the tags of
\* all the actions that ran
C23_NoHookBlocksAnother ==
  (CallEnded("processPaymentHooks") /\ call.config.present) =>
    /\ HookConfigured("rebalanceTarget") => Invoked("rebalance")
    /\ HookConfigured("autoSwapToken") => Invoked("swap")
    /\ LastOutcome.res = call.executedHooks

SendsWebhook == Len(sent') = Len(sent) + 1
DeliveredWith(response) == \E i \in 1..Len(posts) : posts[i].response = response
FailedDeliveryInStep ==
  \E i \in (Len(posts) + 1)..Len(posts') : DeliveryFails(posts'[i].response)

\* the continuation of a handler after one of its sendWebhook calls when no
\* webhook is registered
ContinuesAsWithoutWebhooks ==
  CASE pc = "i_initiated" ->
         IF IsSupported(call.sourceChain)
           THEN pc' = "i_burning" /\ Last(events').step = "BURNING" /\ error' = error
           ELSE pc' = "i_failed" /\ error'.kind = "TypeError"
    [] pc = "i_burning" ->
         \/ pc' = "b_balance" /\ events' = events /\ error' = error
         \/ /\ pc' = "i_failed"
            /\ error'.kind \in {"Unsupported chain", "ParseError", "Invalid amount"}
    [] pc = "i_pending" -> pc' = "p_loop" /\ events' = events /\ error' = error
    [] pc = "i_ready" ->
         /\ pc' = "idle" /\ events' = events
         /\ Last(outcomes').ok /\ initiateResult'.status = "ATTESTED"
    [] pc = "i_failed" ->
         /\ pc' = "idle" /\ events' = events
         /\ ~Last(outcomes').ok /\ Last(outcomes').err = error
    [] pc = "c_minting" -> pc' = "c_bytes" /\ events' = events /\ error' = error
    [] pc = "c_completed" ->
         /\ pc' = "idle" /\ events' = events
         /\ Last(outcomes').ok /\ completeResult'.status = "COMPLETED"
    [] OTHER -> FALSE

\* C24: no progress event, caught error or rejection of initiateTransfer and
\* completeTransfer stems from a webhook delivery, and after every sendWebhook
\* call, whichever webhooks are registered and however their deliveries end,
\* the handler continues exactly as it does when no webhook is registered
C24_DeliveryFailuresContained ==
  /\ [](/\ error.kind # "WebhookError"
        /\ \A i \in 1..Len(events) : events[i].err # "WebhookError"
        /\ \A i \in 1..Len(outcomes) : outcomes[i].err.kind # "WebhookError")
  /\ [][SendsWebhook => ContinuesAsWithoutWebhooks]_vars

C24_Witness ==
  /\ CallEnded("completeTransfer")
  /\ LastOutcome.ok
  /\ DeliveredWith("serverError") /\ DeliveredWith("networkError")
  /\ DeliveredWith("timeout") /\ DeliveredWith("clientError") /\ DeliveredWith("ok")
  /\ stepTrace = <<"BURNING", "WAITING_ATTESTATION", "READY_TO_MINT", "MINTING", "COMPLETED">>

WaitingEvents == {i \in 1..Len(events) : events[i].step = "WAITING_ATTESTATION"}
AttestationInHand == Truthy(poll.attestation) \/ Truthy(initiateResult.attestation)
\* 30 + 0.4 * 95, the event of a poll report at the cap
CappedWaiting == 30 + (4 * ProgressCap) \div 10
PollReported ==
  /\ pc = "p_loop" /\ pc' \in {"p_sleep", "p_returned"}
  /\ poll.caller = "initiateTransfer"

\* C25: every WAITING_ATTESTATION event of initiateTransfer lies in the band
\* 30..70; the events forwarded from the poller before an attestation is in
\* hand stay at or below 30 + 0.4 * 95 (a report of at most 95) and never
\* decrease from one report to the next; the top of the band (a report of 100)
\* is reached only once a non-empty attestation was obtained
C25_ProgressBands ==
  /\ [](\A i \in WaitingEvents :
          /\ 30 * events[i].den <= events[i].num
          /\ events[i].num <= 70 * events[i].den
          /\ events[i].num > CappedWaiting * events[i].den =>
               /\ AttestationInHand
               /\ events[i].num = 70 * events[i].den)
  /\ [][PollReported =>
          /\ Last(events').step = "WAITING_ATTESTATION"
          /\ IF Last(events').den = Last(events).den
               THEN Last(events').num >= Last(events).num
               ELSE /\ Last(events).den = 1
                    /\ Last(events').num >= Last(events).num * Last(events').den]_vars

C25_Witness ==
  /\ pc = "p_sleep"
  /\ poll.caller = "initiateTransfer"
  /\ ~AttestationInHand
  /\ poll.elapsed * 100 > ProgressCap * poll.maxWaitTime
  /\ Last(events).step = "WAITING_ATTESTATION"
  /\ Last(events).num = CappedWaiting * Last(events).den

OwnPipelineOrder(steps) ==
  /\ steps # <<>> => steps[1] = "BURNING"
  /\ \A i \in 1..(Len(steps) - 1) :
       /\ steps[i] # "FAILED"
       /\ steps[i + 1] \in {PipelineSucc(steps[i]), "FAILED"}

\* C26 as claimed: with several transfers interleaved, each transfer's steps
\* reach its callback in pipeline order, and no transfer is affected by
\* another: what a transfer has read of the wallet still holds when it submits
\* its burn, so that no burn is reverted for funds its transfer had checked
C26_TransfersIndependent ==
  \A t \in TransferIds :
    /\ OwnPipelineOrder(transfers[t].steps)
    /\ transfers[t].pc = "b_submit" => BurnExecutes(transfers[t].amount)
    /\ transfers[t].err.cause # "reverted"

BigEndian32(value) ==
  << (value \div 16777216) % 256, (value \div 65536) % 256, (value \div 256) % 256,
     value % 256 >>

\* C27 as claimed: for every metadata value encodeHookMetadata returns exactly
\* 6 bytes: the hook-type code, 0 for PRE_MINT and 1 for POST_MINT, then the
\* gas limit as a big-endian 32-bit integer, 300000 standing in when the gas
\* limit is unset; callbackData has no part in the encoding
C27_SixByteEncoding ==
  call.op = "encodeHookMetadata" =>
    /\ ~call.returned.threw
    /\ Len(call.returned.bytes) = 6
    /\ call.returned.bytes[1] = hookTypeToNumber(call.metadata.hookType)
    /\ call.returned.bytes[2] = (IF call.metadata.executionTiming = "PRE_MINT" THEN 0 ELSE 1)
    /\ SubSeq(call.returned.bytes, 3, 6) =
         BigEndian32(IF call.metadata.gasSet THEN call.metadata.gasLimit
                                             ELSE EncodeGasDefault)
    /\ call.returned =
         encodeHookMetadata([call.metadata EXCEPT !.callbackData = Undefined])

PollingForTransfer ==
  poll.caller = "initiateTransfer" /\ pc \in {"p_loop", "p_sleep", "p_returned"}

\* C28 as claimed: the attestation of a transfer is polled with the short
\* fast-finality timeout exactly when the fast-finality burn was submitted; a
\* transfer whose burn went through the standard branch or carried hooks is
\* polled with the long standard timeout
C28_TimeoutMatchesBurnVariant ==
  PollingForTransfer =>
    /\ Len(burnCalls) = 1
    /\ poll.maxWaitTime = (IF burnCalls[1].branch = "fast" THEN FastPollTimeout
                                                           ELSE StandardPollTimeout)

\* C29 as claimed: every lifecycle notification sent for the transfer, by
\* initiateTransfer and by completeTransfer alike, carries one and the same
\* transfer id
C29_OneTransferId ==
  \A i, j \in 1..Len(sent) : sent[i].id = sent[j].id

FailedSteps == {i \in 1..Len(stepTrace) : stepTrace[i] = "FAILED"}
FailedSends == {i \in 1..Len(sent) : sent[i].event = "transfer.failed"}

\* C30 as claimed: transfer.failed is sent only after a FAILED progress event
\* of the running call, and once a call of initiateTransfer or completeTransfer
\* has ended, each FAILED event emitted so far has had exactly one
\* transfer.failed notification
C30_FailedIsNotified ==
  /\ Cardinality(FailedSends) <= Cardinality(FailedSteps)
  /\ pc = "idle" => Cardinality(FailedSends) = Cardinality(FailedSteps)

====
